---- MODULE Spec2Model ----
(***************************************************************************)
(* Report lifecycle of the MoI reporting backend: the Report and           *)
(* Attachment tables, the ReportService operations over an AsyncSession,   *)
(* the HTTP route handlers that call them, the AnalyticsService queries    *)
(* over the hot and cold report facts and the User table, and the role     *)
(* assignment route.  inflight holds the requests that have started and    *)
(* not yet ended, for the calls that are followed step by step.            *)
(***************************************************************************)
EXTENDS Integers, Sequences, FiniteSets, TLC

VARIABLES reports, attachments, uuidCount, now, last, facts, users, inflight

vars == <<reports, attachments, uuidCount, now, last, facts, users, inflight>>

\* the tables of the analytics database
analyticsVars == <<facts, users>>

\* the tables of the operational database, its uuid source and its clock
reportVars == <<reports, attachments, uuidCount, now>>

(* ------------------------------ bounds --------------------------------- *)

\* uuid4() calls one behaviour may make
MaxUuid == 2
\* last reading of the wall clock
MaxTime == 1
\* attachments one create input may carry
MaxAtt == 1

(* ------------------------------ values --------------------------------- *)

None == "None"

\* app/schemas/report.py ReportStatus
ReportStatus == {"Submitted", "Assigned", "InProgress", "Resolved", "Rejected"}

\* app/schemas/report.py ReportCategory
ReportCategory == {"infrastructure", "utilities", "crime", "traffic",
                   "public_nuisance", "environmental", "other"}

\* the first 8 hex characters a uuid4 may start with (two of the 16^8)
Hex8Values == {"0000000a", "0000000b"}

\* str.upper() on the hex prefixes of the model
Upper(s) ==
    CASE s = "0000000a" -> "0000000A"
      [] s = "0000000b" -> "0000000B"
      [] OTHER -> s

\* uuid.uuid4(): 122 random bits; the k-th uuid of a behaviour is told from
\* every other by its serial, its first 8 hex characters are arbitrary
Uuid4(h, k) == [hex8 |-> h, serial |-> k]

\* uuid.hex[:8]
Hex8(u) == u.hex8

\* report_id = f"R-{uuid.uuid4().hex[:8].upper()}"
ReportIdOf(u) == "R-" \o Upper(Hex8(u))

\* the identifiers a caller may pass: each is stored at some time and
\* absent at another
ReportIds == {ReportIdOf(Uuid4(h, 0)) : h \in Hex8Values}

\* the hex prefix of an attachment's uuid is never read: one stands for all
AttachmentHex8 == "0000000a"

\* AttachmentCreate objects (already validated by pydantic)
AttachmentCreate ==
    [blobStorageUri : {"https://azure.com/evidence.jpg"},
     mimeType : {"image/jpeg"},
     fileType : {"image"},
     fileSizeBytes : {5000}]

AttachmentLists == UNION {[1..n -> AttachmentCreate] : n \in 0..MaxAtt}

\* ReportCreate objects (already validated by pydantic): two contents, one
\* without a category, each with every number of attachments
ReportCreate ==
    {[title |-> "Test Pothole",
      descriptionText |-> "This is a test pothole report for testing purposes",
      categoryId |-> None,
      location |-> "King Faisal Street, Giza",
      transcribedVoiceText |-> None,
      isAnonymous |-> FALSE,
      hashedDeviceId |-> None,
      attachments |-> atts] : atts \in AttachmentLists}
    \cup
    {[title |-> "Broken Streetlight",
      descriptionText |-> "The light is flickering heavily.",
      categoryId |-> "infrastructure",
      location |-> "Corner of King Faisal St and Main St",
      transcribedVoiceText |-> None,
      isAnonymous |-> TRUE,
      hashedDeviceId |-> "abc123hash",
      attachments |-> atts] : atts \in AttachmentLists}

\* faults of the database during one call
Faults == {"none", "commit", "refresh"}

(* ------------------------------ session -------------------------------- *)

\* Report.reportId is the primary key of the Report table
ReportPkOk(rows) ==
    \A r \in rows : \A s \in reports : s.reportId # r.reportId

\* Attachment.attachmentId is the primary key of the Attachment table
AttachmentPkOk(rows) ==
    \A a \in rows : \A b \in attachments : b.attachmentId # a.attachmentId

\* Attachment.reportId references Report.reportId
AttachmentFkOk(reportRows, rows) ==
    \A a \in rows : \E r \in reportRows : r.reportId = a.reportId

\* db.commit(): the pending rows are flushed and committed in one
\* transaction, or nothing is
CommitSucceeds(newReports, newAttachments, fault) ==
    /\ fault # "commit"
    /\ ReportPkOk(newReports)
    /\ AttachmentPkOk(newAttachments)
    /\ AttachmentFkOk(reports \cup newReports, newAttachments)

\* as SelectReport, without the where clause
SelectAnyReport(report_id) == reports

\* select(Report).where(Report.reportId == report_id)
SelectReport(report_id) == {r \in reports : r.reportId = report_id}

\* the rows Report.attachments loads
AttachmentsOf(report_id) == {a \in attachments : a.reportId = report_id}

(* ------------------------------ responses ------------------------------ *)

AttachmentResponse(att) ==
    [attachmentId |-> att.attachmentId,
     reportId |-> att.reportId,
     blobStorageUri |-> att.blobStorageUri,
     mimeType |-> att.mimeType,
     fileType |-> att.fileType,
     fileSizeBytes |-> att.fileSizeBytes]

\* as ReportResponse, with location read from another column
ReportResponseWrongColumn(r, atts) ==
    [reportId |-> r.reportId,
     title |-> r.title,
     descriptionText |-> r.descriptionText,
     categoryId |-> r.categoryId,
     status |-> r.status,
     location |-> r.descriptionText,
     aiConfidence |-> r.aiConfidence,
     createdAt |-> r.createdAt,
     updatedAt |-> r.updatedAt,
     userId |-> r.userId,
     transcribedVoiceText |-> r.transcribedVoiceText,
     attachments |-> {AttachmentResponse(a) : a \in atts}]

ReportResponse(r, atts) ==
    [reportId |-> r.reportId,
     title |-> r.title,
     descriptionText |-> r.descriptionText,
     categoryId |-> r.categoryId,
     status |-> r.status,
     location |-> r.locationRaw,
     aiConfidence |-> r.aiConfidence,
     createdAt |-> r.createdAt,
     updatedAt |-> r.updatedAt,
     userId |-> r.userId,
     transcribedVoiceText |-> r.transcribedVoiceText,
     attachments |-> {AttachmentResponse(a) : a \in atts}]

NoCall == [op |-> "none"]

(* ------------------------------ state ---------------------------------- *)

\* the analytics tables with no row
NoFacts == [hot |-> {}, cold |-> {}]

\* the operational database with no row, no call made
InitReports ==
    /\ reports = {}
    /\ attachments = {}
    /\ uuidCount = 0
    /\ now = 0
    /\ last = NoCall
    /\ inflight = {}

Init ==
    /\ InitReports
    /\ facts = NoFacts
    /\ users = {}

\* utcnow(): the wall clock read at t, not before the last reading
Utcnow(t) == t \in now..(IF now < MaxTime THEN now + 1 ELSE MaxTime)

(* ------------------------------ create --------------------------------- *)

\* as NewReport, without the default of categoryId
NewReportNoDefault(report_id, report_data, user_id, t1, t2) ==
    [reportId |-> report_id,
     title |-> report_data.title,
     descriptionText |-> report_data.descriptionText,
     locationRaw |-> report_data.location,
     categoryId |-> report_data.categoryId,
     userId |-> user_id,
     transcribedVoiceText |-> report_data.transcribedVoiceText,
     status |-> "Submitted",
     aiConfidence |-> None,
     createdAt |-> t1,
     updatedAt |-> t2]

\* the Report object create_report builds
NewReport(report_id, report_data, user_id, t1, t2) ==
    [reportId |-> report_id,
     title |-> report_data.title,
     descriptionText |-> report_data.descriptionText,
     locationRaw |-> report_data.location,
     categoryId |-> IF report_data.categoryId # None
                    THEN report_data.categoryId ELSE "other",
     userId |-> user_id,
     transcribedVoiceText |-> report_data.transcribedVoiceText,
     status |-> "Submitted",
     aiConfidence |-> None,
     createdAt |-> t1,
     updatedAt |-> t2]

\* the Attachment object create_report builds for one input
NewAttachment(u, report_id, att_data) ==
    [attachmentId |-> u,
     reportId |-> report_id,
     blobStorageUri |-> att_data.blobStorageUri,
     mimeType |-> att_data.mimeType,
     fileType |-> att_data.fileType,
     fileSizeBytes |-> att_data.fileSizeBytes]

\* as NewAttachments, with the loop starting at the second input
NewAttachmentsSkipFirst(report_id, atts) ==
    [i \in 1..(Len(atts) - 1) |->
        NewAttachment(Uuid4(AttachmentHex8, uuidCount + 1 + i), report_id, atts[i + 1])]

\* the Attachment objects of the call, in input order, each with the
\* next uuid
NewAttachments(report_id, atts) ==
    [i \in 1..Len(atts) |->
        NewAttachment(Uuid4(AttachmentHex8, uuidCount + 1 + i), report_id, atts[i])]

\* as AfterRollback, with the flushed report row left behind
AfterRollbackPartial(db_report, added) == <<reports \cup {db_report}, attachments>>

\* db.rollback() after a failed commit: the tables as they were
AfterRollback(db_report, added) == <<reports, attachments>>

CreateReportUpTo(report_data, user_id, h, fault, t1, t2, cap) ==
    LET report_id == ReportIdOf(Uuid4(h, uuidCount + 1))
        db_report == NewReport(report_id, report_data, user_id, t1, t2)
        attachment_orms == NewAttachments(report_id, report_data.attachments)
        added == {attachment_orms[i] : i \in DOMAIN attachment_orms}
        n == Len(report_data.attachments)
    IN  /\ uuidCount + 1 + n <= cap
        /\ uuidCount' = uuidCount + 1 + n
        /\ now' = t2
        /\ IF CommitSucceeds({db_report}, added, fault)
           THEN /\ reports' = reports \cup {db_report}
                /\ attachments' = attachments \cup added
                /\ last' = IF fault = "refresh"
                           THEN [op |-> "create", input |-> report_data,
                                 reportId |-> report_id,
                                 outcome |-> "error", failed |-> "refresh"]
                           ELSE [op |-> "create", input |-> report_data,
                                 reportId |-> report_id,
                                 outcome |-> "ok",
                                 result |-> ReportResponse(db_report, added)]
           ELSE /\ reports' = AfterRollback(db_report, added)[1]
                /\ attachments' = AfterRollback(db_report, added)[2]
                /\ last' = [op |-> "create", input |-> report_data,
                            reportId |-> report_id,
                            outcome |-> "error", failed |-> "commit"]

\* create_report while at most MaxUuid uuids are drawn
CreateReport(report_data, user_id, h, fault, t1, t2) ==
    CreateReportUpTo(report_data, user_id, h, fault, t1, t2, MaxUuid)

Create ==
    \E report_data \in ReportCreate, user_id \in {None},
       h \in Hex8Values, fault \in Faults, t1, t2 \in 0..MaxTime :
        /\ Utcnow(t1)
        /\ t2 \in t1..(IF t1 < MaxTime THEN t1 + 1 ELSE MaxTime)
        /\ CreateReport(report_data, user_id, h, fault, t1, t2)
        /\ UNCHANGED <<analyticsVars, inflight>>

\* create_report with the one content that has no category, the uuid
\* drawn with one prefix: at most one report is stored
PotholeReportCreate == {r \in ReportCreate : r.categoryId = None}
PotholeHex8 == "0000000a"

CreatePothole ==
    \E report_data \in PotholeReportCreate, user_id \in {None},
       h \in {PotholeHex8}, fault \in Faults, t1, t2 \in 0..MaxTime :
        /\ Utcnow(t1)
        /\ t2 \in t1..(IF t1 < MaxTime THEN t1 + 1 ELSE MaxTime)
        /\ CreateReport(report_data, user_id, h, fault, t1, t2)
        /\ UNCHANGED <<analyticsVars, inflight>>

\* create_report with either content and no attachment
BareReportCreate == {r \in ReportCreate : r.attachments = <<>>}

CreateBare ==
    \E report_data \in BareReportCreate, user_id \in {None},
       h \in Hex8Values, fault \in Faults, t1, t2 \in 0..MaxTime :
        /\ Utcnow(t1)
        /\ t2 \in t1..(IF t1 < MaxTime THEN t1 + 1 ELSE MaxTime)
        /\ CreateReport(report_data, user_id, h, fault, t1, t2)
        /\ UNCHANGED <<analyticsVars, inflight>>

(* ------------------------------ validation ----------------------------- *)

\* Field(..., min_length=3, max_length=500) of title
MinTitleLength == 3
MaxTitleLength == 500
\* Field(..., min_length=10) of descriptionText
MinDescriptionLength == 10
\* Field(..., gt=0, le=52428800) of fileSizeBytes
MaxFileSizeBytes == 52428800

\* the string of n copies of c
RECURSIVE Repeat(_, _)
Repeat(c, n) ==
    IF n = 0 THEN ""
    ELSE IF n % 2 = 0 THEN LET half == Repeat(c, n \div 2) IN half \o half
    ELSE c \o Repeat(c, n - 1)

\* attachment objects of a request body, their sizes on both sides of the
\* two bounds
AttachmentPayloads ==
    [blobStorageUri : {"https://valid-url.com/vid.mp4"},
     mimeType : {"video/mp4"},
     fileType : {"video"},
     fileSizeBytes : {0, 1, MaxFileSizeBytes, MaxFileSizeBytes + 1}]

AttachmentPayloadLists ==
    UNION {[1..n -> AttachmentPayloads] : n \in 0..MaxAtt}

\* titles of 2, 3, 500 and 501 characters; descriptions of 9 and 10
TitlePayloads ==
    {"No", "Fix", Repeat("t", MaxTitleLength), Repeat("t", MaxTitleLength + 1)}
DescriptionPayloads == {"Too short", "Long enough"}

\* request bodies for ReportCreate: a well-formed body varied in its
\* title, in its description, in its attachments, or left without the key
\* location
ReportPayloads ==
    [title : TitlePayloads, descriptionText : DescriptionPayloads,
     location : {"Cairo"}, attachments : {<<>>}]
    \cup
    [title : {"Fix"}, descriptionText : {"Long enough"},
     location : {"Cairo"}, attachments : AttachmentPayloadLists]
    \cup
    [title : {"Fix"}, descriptionText : DescriptionPayloads,
     attachments : {<<>>}]

\* as ValidAttachmentCreate, without the ceiling
ValidAttachmentCreateAnySize(a) == a.fileSizeBytes > 0

\* the constraint of AttachmentCreate on fileSizeBytes (the payloads meet
\* the other ones)
ValidAttachmentCreate(a) ==
    a.fileSizeBytes > 0 /\ a.fileSizeBytes <= MaxFileSizeBytes

\* as ValidReportCreate, without the minimum length of descriptionText
ValidReportCreateAnyDescription(p) ==
    /\ Len(p.title) >= MinTitleLength
    /\ Len(p.title) <= MaxTitleLength
    /\ "location" \in DOMAIN p
    /\ \A i \in DOMAIN p.attachments : ValidAttachmentCreate(p.attachments[i])

\* the constraints of ReportCreate: title, descriptionText, the required
\* location and every nested AttachmentCreate
ValidReportCreate(p) ==
    /\ Len(p.title) >= MinTitleLength
    /\ Len(p.title) <= MaxTitleLength
    /\ Len(p.descriptionText) >= MinDescriptionLength
    /\ "location" \in DOMAIN p
    /\ \A i \in DOMAIN p.attachments : ValidAttachmentCreate(p.attachments[i])

\* the ReportCreate object of a valid body, the keys left out at their
\* defaults
ParseReportCreate(p) ==
    [title |-> p.title,
     descriptionText |-> p.descriptionText,
     categoryId |-> None,
     location |-> p.location,
     transcribedVoiceText |-> None,
     isAnonymous |-> FALSE,
     hashedDeviceId |-> None,
     attachments |-> p.attachments]

\* ReportCreate(**payload), then create_report with the object; a body
\* that fails validation raises ValidationError and no object exists to
\* call create_report with
ValidateAndCreate(p, h, fault, t1, t2) ==
    IF ValidReportCreate(p)
    THEN CreateReport(ParseReportCreate(p), None, h, fault, t1, t2)
    ELSE /\ last' = [op |-> "validate", input |-> p,
                     outcome |-> "validation_error"]
         /\ UNCHANGED reportVars

Submit ==
    \E p \in ReportPayloads, h \in {PotholeHex8}, fault \in Faults,
       t1, t2 \in 0..MaxTime :
        /\ Utcnow(t1)
        /\ t2 \in t1..(IF t1 < MaxTime THEN t1 + 1 ELSE MaxTime)
        /\ ValidateAndCreate(p, h, fault, t1, t2)
        /\ UNCHANGED <<analyticsVars, inflight>>

(* ------------------------------ get ------------------------------------ *)

\* as GetReportResult, with the attachments never loaded
GetReportResultLazy(report_id) ==
    LET found == SelectReport(report_id)
    IN  IF found = {}
        THEN [outcome |-> "not_found"]
        ELSE LET report == CHOOSE r \in found : TRUE
             IN  [outcome |-> "ok", result |-> ReportResponse(report, {})]

\* ReportService.get_report: None when no row matches, else the response
\* with the attachments selectinload fetched
GetReportResult(report_id) ==
    LET found == SelectReport(report_id)
    IN  IF found = {}
        THEN [outcome |-> "not_found"]
        ELSE LET report == CHOOSE r \in found : TRUE
             IN  [outcome |-> "ok",
                  result |-> ReportResponse(report, AttachmentsOf(report.reportId))]

GetReport(report_id) ==
    /\ last' = [op |-> "get", reportId |-> report_id,
                call |-> GetReportResult(report_id)]
    /\ UNCHANGED <<reports, attachments, uuidCount, now>>

Get ==
    \E report_id \in ReportIds :
        GetReport(report_id) /\ UNCHANGED <<analyticsVars, inflight>>

(* ------------------------------ list ----------------------------------- *)

\* the arguments list_reports is called with
ListSkips == {0}
ListLimits == {10}
ListStatusFilters == {None}
ListCategoryFilters == {None}

\* the rows of stmt: select(Report) with `if status:` and `if category:`
\* each adding its where clause
FilteredReports(status, category) ==
    {r \in reports : /\ (status # None => r.status = status)
                     /\ (category # None => r.categoryId = category)}

\* the rows of count_stmt; its where clauses are the value of
\*   [status clause] if status else [] + [category clause] if category else []
\* which Python groups as  A if status else (([] + B) if category else [])
CountedReports(status, category) ==
    IF status # None
    THEN {r \in reports : r.status = status}
    ELSE IF category # None
         THEN {r \in reports : r.categoryId = category}
         ELSE reports

\* the orders ORDER BY createdAt DESC may return rows in: rows of equal
\* createdAt come in any order
OrderedByCreatedAtDesc(rows) ==
    {o \in [1..Cardinality(rows) -> rows] :
        /\ \A i, j \in DOMAIN o : i # j => o[i] # o[j]
        /\ \A i, j \in DOMAIN o : i < j => o[i].createdAt >= o[j].createdAt}

\* as OffsetLimit, with the offset left out
OffsetLimitNoSkip(o, skip, limit) ==
    SubSeq(o, 1, IF limit < Len(o) THEN limit ELSE Len(o))

\* .offset(skip).limit(limit)
OffsetLimit(o, skip, limit) ==
    SubSeq(o, skip + 1, IF skip + limit < Len(o) THEN skip + limit ELSE Len(o))

\* page=skip // limit + 1 if limit > 0 else 1
PageNumber(skip, limit) == IF limit > 0 THEN (skip \div limit) + 1 ELSE 1

\* as TotalPages, rounding down
TotalPagesFloor(total, limit) == IF limit > 0 THEN total \div limit ELSE 1

\* totalPages=(total + limit - 1) // limit if limit > 0 else 1
TotalPages(total, limit) ==
    IF limit > 0 THEN (total + limit - 1) \div limit ELSE 1

\* the ReportListResponse of list_reports
ReportListResponse(o, total, skip, limit) ==
    [reports |-> [i \in 1..Len(OffsetLimit(o, skip, limit)) |->
                    ReportResponse(OffsetLimit(o, skip, limit)[i],
                        AttachmentsOf(OffsetLimit(o, skip, limit)[i].reportId))],
     total |-> total,
     page |-> PageNumber(skip, limit),
     pageSize |-> limit,
     totalPages |-> TotalPages(total, limit)]

ListReports(skip, limit, status, category) ==
    /\ \E o \in OrderedByCreatedAtDesc(FilteredReports(status, category)) :
          last' = [op |-> "list", skip |-> skip, limit |-> limit,
                   status |-> status, category |-> category,
                   result |-> ReportListResponse(o,
                                 Cardinality(CountedReports(status, category)),
                                 skip, limit)]
    /\ UNCHANGED <<reports, attachments, uuidCount, now>>

List ==
    \E skip \in ListSkips, limit \in ListLimits,
       status \in ListStatusFilters, category \in ListCategoryFilters :
        ListReports(skip, limit, status, category) /\ UNCHANGED <<analyticsVars, inflight>>

\* list_reports called with an offset, with page sizes down to 0 and with
\* each filter given or left out
AnyListSkips == {0, 1}
AnyListLimits == {0, 1, 2}
AnyListStatusFilters == {None, "Assigned"}
AnyListCategoryFilters == {None, "infrastructure"}

ListAny ==
    \E skip \in AnyListSkips, limit \in AnyListLimits,
       status \in AnyListStatusFilters, category \in AnyListCategoryFilters :
        ListReports(skip, limit, status, category) /\ UNCHANGED <<analyticsVars, inflight>>

\* limit: int = 10, the page size list_reports has by default
DefaultLimit == 10

\* the k-th of the uuid prefixes drawn while one page fills up and
\* overflows: each draw of uuid4 is a new value
RecentHex8(k) ==
    IF k < 10 THEN "0000000" \o ToString(k) ELSE "000000" \o ToString(k)

\* the report the API test of list creates
RecentReportCreate ==
    [title |-> "Test Report for List",
     descriptionText |-> "Test description for listing",
     categoryId |-> "infrastructure",
     location |-> "Test Location",
     transcribedVoiceText |-> None,
     isAnonymous |-> FALSE,
     hashedDeviceId |-> None,
     attachments |-> <<>>]

\* create_report of that report, until one more report than a page holds
\* has been created
CreateRecent ==
    \E fault \in Faults, t \in 0..MaxTime :
        /\ Utcnow(t)
        /\ CreateReportUpTo(RecentReportCreate, None,
                            RecentHex8(uuidCount + 1), fault, t, t,
                            DefaultLimit + 1)
        /\ UNCHANGED <<analyticsVars, inflight>>

\* the sets of rows that ORDER BY createdAt DESC OFFSET 0 LIMIT limit may
\* return: no row left out is more recent than a row returned, and rows
\* of equal createdAt come in any order
FirstPages(rows, limit) ==
    {page \in SUBSET rows :
        /\ Cardinality(page) =
              (IF Cardinality(rows) < limit THEN Cardinality(rows) ELSE limit)
        /\ \A r \in page, q \in rows \ page : r.createdAt >= q.createdAt}

\* list_reports(skip=0, limit=10) without filters; of the response the
\* identifiers of the page are kept, as a set, and the total
ListFirstPage ==
    /\ \E page \in FirstPages(FilteredReports(None, None), DefaultLimit) :
          last' = [op |-> "list", skip |-> 0, limit |-> DefaultLimit,
                   status |-> None, category |-> None,
                   reportIds |-> {r.reportId : r \in page},
                   total |-> Cardinality(CountedReports(None, None))]
    /\ UNCHANGED reportVars
    /\ UNCHANGED <<analyticsVars, inflight>>

(* ------------------------------ updateStatus --------------------------- *)

\* ReportStatusUpdate objects
ReportStatusUpdate ==
    [status : {"Assigned", "Resolved"}, notes : {"Assigned to maintenance team"}]

\* as UpdatedReport, with the notes kept in a column of the report
UpdatedReportKeepsNotes(report, status_update, t) ==
    [report EXCEPT !.status = status_update.status, !.updatedAt = t,
                   !.transcribedVoiceText = status_update.notes]

\* as UpdatedReport, with a resolved report keeping its status
UpdatedReportUnlessResolved(report, status_update, t) ==
    IF report.status = "Resolved"
    THEN [report EXCEPT !.updatedAt = t]
    ELSE [report EXCEPT !.status = status_update.status, !.updatedAt = t]

\* report.status = ...; report.updatedAt = utcnow()
UpdatedReport(report, status_update, t) ==
    [report EXCEPT !.status = status_update.status, !.updatedAt = t]

UpdateReportStatus(report_id, status_update, fault, t) ==
    LET found == SelectReport(report_id)
    IN  IF found = {}
        THEN /\ last' = [op |-> "update", reportId |-> report_id,
                         input |-> status_update, outcome |-> "not_found"]
             /\ UNCHANGED <<reports, attachments, uuidCount, now>>
        ELSE LET report == CHOOSE r \in found : TRUE
                 changed == UpdatedReport(report, status_update, t)
             IN  /\ now' = t
                 /\ UNCHANGED <<attachments, uuidCount>>
                 /\ IF fault = "commit"
                    THEN /\ UNCHANGED reports
                         /\ last' = [op |-> "update", reportId |-> report_id,
                                     input |-> status_update,
                                     previous |-> report.status,
                                     fault |-> fault,
                                     outcome |-> "error", failed |-> "commit"]
                    ELSE /\ reports' = (reports \ {report}) \cup {changed}
                         /\ last' = IF fault = "refresh"
                                    THEN [op |-> "update", reportId |-> report_id,
                                          input |-> status_update,
                                          previous |-> report.status,
                                          fault |-> fault,
                                          outcome |-> "error", failed |-> "refresh"]
                                    ELSE [op |-> "update", reportId |-> report_id,
                                          input |-> status_update,
                                          previous |-> report.status,
                                          fault |-> fault,
                                          outcome |-> "ok",
                                          result |-> ReportResponse(changed,
                                                        AttachmentsOf(report_id))]

Update ==
    \E report_id \in ReportIds, status_update \in ReportStatusUpdate,
       fault \in Faults, t \in 0..MaxTime :
        /\ Utcnow(t)
        /\ UpdateReportStatus(report_id, status_update, fault, t)
        /\ UNCHANGED <<analyticsVars, inflight>>

\* ReportStatusUpdate objects with every member of ReportStatus, the notes
\* given or left out
AnyReportStatusUpdate ==
    [status : ReportStatus, notes : {None, "Assigned to maintenance team"}]

\* ReportStatusUpdate objects that differ in their notes only
NotesReportStatusUpdate ==
    [status : {"InProgress"}, notes : {None, "Assigned to maintenance team"}]

UpdateNotes ==
    \E report_id \in ReportIds, status_update \in NotesReportStatusUpdate,
       fault \in Faults, t \in 0..MaxTime :
        /\ Utcnow(t)
        /\ UpdateReportStatus(report_id, status_update, fault, t)
        /\ UNCHANGED <<analyticsVars, inflight>>

\* ReportStatusUpdate objects that assign the report
AssignReportStatusUpdate ==
    [status : {"Assigned"}, notes : {"Assigned to maintenance team"}]

UpdateAssign ==
    \E report_id \in ReportIds, status_update \in AssignReportStatusUpdate,
       fault \in Faults, t \in 0..MaxTime :
        /\ Utcnow(t)
        /\ UpdateReportStatus(report_id, status_update, fault, t)
        /\ UNCHANGED <<analyticsVars, inflight>>

UpdateAny ==
    \E report_id \in ReportIds, status_update \in AnyReportStatusUpdate,
       fault \in Faults, t \in 0..MaxTime :
        /\ Utcnow(t)
        /\ UpdateReportStatus(report_id, status_update, fault, t)
        /\ UNCHANGED <<analyticsVars, inflight>>

(* ------------------------------ delete --------------------------------- *)

\* as DeletedAttachments, without the cascade
DeletedAttachmentsNone(report) == {}

\* the rows db.delete(report) removes: the report and, by the cascade of
\* Report.attachments, its attachments
DeletedAttachments(report) == AttachmentsOf(report.reportId)

\* as DeleteReport, without the `if not report: return False` guard:
\* db.delete(None) raises and the handler turns it into HTTP 500
DeleteReportNoCheck(report_id, fault) ==
    /\ last' = [op |-> "delete", reportId |-> report_id,
                outcome |-> "error", failed |-> "delete"]
    /\ UNCHANGED <<reports, attachments, uuidCount, now>>

DeleteReport(report_id, fault) ==
    LET found == SelectReport(report_id)
    IN  /\ UNCHANGED <<uuidCount, now>>
        /\ IF found = {}
           THEN /\ last' = [op |-> "delete", reportId |-> report_id,
                            outcome |-> "ok", result |-> FALSE]
                /\ UNCHANGED <<reports, attachments>>
           ELSE LET report == CHOOSE r \in found : TRUE
                IN  IF fault = "commit"
                    THEN /\ UNCHANGED <<reports, attachments>>
                         /\ last' = [op |-> "delete", reportId |-> report_id,
                                     outcome |-> "error", failed |-> "commit"]
                    ELSE /\ reports' = reports \ {report}
                         /\ attachments' = attachments \ DeletedAttachments(report)
                         /\ last' = [op |-> "delete", reportId |-> report_id,
                                     outcome |-> "ok", result |-> TRUE,
                                     cascaded |-> Cardinality(AttachmentsOf(report_id))]

Delete ==
    \E report_id \in ReportIds, fault \in {"none", "commit"} :
        DeleteReport(report_id, fault) /\ UNCHANGED <<analyticsVars, inflight>>

(* ------------------------------ concurrent calls ----------------------- *)

\* the requests that run at the same time, each with its own AsyncSession
Sessions == {"s1", "s2"}

\* the session has no call in flight
Idle(session) == \A c \in inflight : c.session # session

\* the report the concurrent calls address
RaceReportIds == {ReportIdOf(Uuid4(PotholeHex8, 0))}

\* ReportStatusUpdate objects that ask for the status a new report has or
\* for another one
RaceReportStatusUpdate == [status : {"Submitted", "Resolved"}, notes : {None}]

\* update_report_status up to `if not report: return None`: the select;
\* the row it loaded stays in the session until the commit
UpdateSelect(session, report_id, status_update) ==
    LET found == SelectReport(report_id)
    IN  /\ Idle(session)
        /\ UNCHANGED reportVars
        /\ IF found = {}
           THEN /\ last' = [op |-> "update", session |-> session,
                            reportId |-> report_id, input |-> status_update,
                            outcome |-> "not_found"]
                /\ UNCHANGED inflight
           ELSE /\ inflight' = inflight \cup
                        {[session |-> session, op |-> "update",
                          reportId |-> report_id, input |-> status_update,
                          report |-> CHOOSE r \in found : TRUE]}
                /\ UNCHANGED last

\* the columns the flush writes: those whose value on the object differs
\* from the value the session loaded
DirtyColumns(loaded, changed) ==
    {c \in {"status", "updatedAt"} : changed[c] # loaded[c]}

\* UPDATE Report SET <dirty columns> WHERE reportId = ...: the stored rows
\* afterwards
FlushUpdate(loaded, changed) ==
    LET dirty == DirtyColumns(loaded, changed)
    IN  {IF r.reportId = loaded.reportId
         THEN [r EXCEPT
                 !.status = IF "status" \in dirty THEN changed.status ELSE @,
                 !.updatedAt = IF "updatedAt" \in dirty
                               THEN changed.updatedAt ELSE @]
         ELSE r : r \in reports}

\* update_report_status from the assignments on: the flush of the commit
\* fails when its UPDATE matches no row, the refresh when the row is gone;
\* either way the except branch rolls back and raises HTTPException 500
UpdateCommit(session, t) ==
    \E call \in inflight :
        /\ call.session = session
        /\ call.op = "update"
        /\ inflight' = inflight \ {call}
        /\ now' = t
        /\ UNCHANGED <<attachments, uuidCount>>
        /\ LET changed == UpdatedReport(call.report, call.input, t)
               dirty == DirtyColumns(call.report, changed)
               stored == SelectReport(call.reportId)
           IN  IF stored = {}
               THEN /\ UNCHANGED reports
                    /\ last' = [op |-> "update", session |-> session,
                                reportId |-> call.reportId,
                                input |-> call.input,
                                outcome |-> "error",
                                failed |-> IF dirty = {} THEN "refresh"
                                           ELSE "commit"]
               ELSE /\ reports' = FlushUpdate(call.report, changed)
                    /\ last' = [op |-> "update", session |-> session,
                                reportId |-> call.reportId,
                                input |-> call.input,
                                outcome |-> "ok",
                                result |-> ReportResponse(
                                    CHOOSE r \in FlushUpdate(call.report, changed) :
                                        r.reportId = call.reportId,
                                    AttachmentsOf(call.reportId))]

\* delete_report up to `if not report: return False`
DeleteSelect(session, report_id) ==
    LET found == SelectReport(report_id)
    IN  /\ Idle(session)
        /\ UNCHANGED reportVars
        /\ IF found = {}
           THEN /\ last' = [op |-> "delete", session |-> session,
                            reportId |-> report_id,
                            outcome |-> "ok", result |-> FALSE]
                /\ UNCHANGED inflight
           ELSE /\ inflight' = inflight \cup
                        {[session |-> session, op |-> "delete",
                          reportId |-> report_id,
                          report |-> CHOOSE r \in found : TRUE]}
                /\ UNCHANGED last

\* delete_report from db.delete(report) on: the row of that key and its
\* attachments are removed
DeleteCommit(session) ==
    \E call \in inflight :
        /\ call.session = session
        /\ call.op = "delete"
        /\ inflight' = inflight \ {call}
        /\ UNCHANGED <<uuidCount, now>>
        /\ reports' = {r \in reports : r.reportId # call.reportId}
        /\ attachments' = attachments \ DeletedAttachments(call.report)
        /\ last' = [op |-> "delete", session |-> session,
                    reportId |-> call.reportId,
                    outcome |-> "ok", result |-> TRUE]

BeginUpdate ==
    \E session \in Sessions, report_id \in RaceReportIds,
       status_update \in RaceReportStatusUpdate :
        /\ UpdateSelect(session, report_id, status_update)
        /\ UNCHANGED analyticsVars

EndUpdate ==
    \E session \in Sessions, t \in 0..MaxTime :
        /\ Utcnow(t)
        /\ UpdateCommit(session, t)
        /\ UNCHANGED analyticsVars

BeginDelete ==
    \E session \in Sessions, report_id \in RaceReportIds :
        DeleteSelect(session, report_id) /\ UNCHANGED analyticsVars

EndDelete ==
    \E session \in Sessions : DeleteCommit(session) /\ UNCHANGED analyticsVars

(* ------------------------------ API routes ----------------------------- *)

\* Python values a route handler holds
PyNone == [py |-> "None"]
PyBool(b) == [py |-> "bool", v |-> b]

\* calling an async def without await: a coroutine object, and the body of
\* the function does not run
PyCoroutine(f) == [py |-> "coroutine", of |-> f]

\* bool(x)
Truthy(x) == ~(x.py = "None" \/ (x.py = "bool" /\ ~x.v))

\* what `ReportService.delete_report(db, report_id)` evaluates to in the
\* route handler
DeleteReportCall(report_id) == PyCoroutine("delete_report")

\* DELETE /api/v1/reports/{report_id}
ApiDeleteReport(report_id) ==
    LET success == DeleteReportCall(report_id)
    IN  /\ last' = [op |-> "api_delete", reportId |-> report_id,
                    status |-> IF ~Truthy(success) THEN 404 ELSE 204]
        /\ UNCHANGED <<reports, attachments, uuidCount, now>>

ApiDelete ==
    \E report_id \in ReportIds :
        ApiDeleteReport(report_id) /\ UNCHANGED <<analyticsVars, inflight>>

(* ------------------------------ analytics ------------------------------ *)

\* createdAt of a fact row, in months counted from year 0: December 2024
\* and January 2025
FactCreatedAt == {24299, 24300}

\* extract('year', createdAt) and extract('month', createdAt)
ExtractYear(createdAt) == createdAt \div 12
ExtractMonth(createdAt) == (createdAt % 12) + 1

\* rows the HotFactReport table may hold, with the columns the service reads
HotFactReport ==
    {[reportId |-> "R-0000000A", status |-> "Submitted",
      categoryId |-> "infrastructure", isAnonymous |-> FALSE,
      createdAt |-> 24300],
     [reportId |-> "R-0000000B", status |-> "Resolved",
      categoryId |-> "other", isAnonymous |-> TRUE,
      createdAt |-> 24300],
     [reportId |-> "R-0000000C", status |-> "Submitted",
      categoryId |-> "other", isAnonymous |-> TRUE,
      createdAt |-> 24299]}

\* rows the ColdFactReport table may hold
ColdFactReport ==
    {[reportId |-> "R-0000000D", status |-> "Resolved",
      categoryId |-> "infrastructure", isAnonymous |-> FALSE,
      createdAt |-> 24299],
     [reportId |-> "R-0000000E", status |-> "Rejected",
      categoryId |-> "other", isAnonymous |-> FALSE,
      createdAt |-> 24299]}

\* the analytics database with any rows in its fact tables
InitAnalytics ==
    /\ InitReports
    /\ facts \in [hot : SUBSET HotFactReport, cold : SUBSET ColdFactReport]
    /\ users = {}

\* AnalyticsService.get_dashboard_stats: the counts are computed into
\* locals (the cold count inside try/except), and the body ends there:
\* the function has no return statement, so the call evaluates to None
DashboardStats(coldRaises) ==
    LET hot_count == Cardinality(facts.hot)
        cold_count == IF coldRaises THEN 0 ELSE Cardinality(facts.cold)
        total_reports == hot_count + cold_count
        anonymous_count == Cardinality({f \in facts.hot : f.isAnonymous})
    IN  PyNone

GetDashboardStats(coldRaises) ==
    /\ last' = [op |-> "dashboard", coldRaises |-> coldRaises,
                result |-> DashboardStats(coldRaises)]
    /\ UNCHANGED <<reportVars, analyticsVars, inflight>>

Dashboard == \E coldRaises \in BOOLEAN : GetDashboardStats(coldRaises)

\* the route GET /dashboard/stats: it returns what the service returns;
\* None does not validate against response_model=DashboardStatsResponse,
\* and the request ends with status 500
ApiGetDashboardStats(coldRaises) ==
    LET stats == DashboardStats(coldRaises)
    IN  /\ last' = [op |-> "api_dashboard", coldRaises |-> coldRaises,
                    status |-> IF stats = PyNone THEN 500 ELSE 200,
                    body |-> stats]
        /\ UNCHANGED <<reportVars, analyticsVars, inflight>>

ApiDashboard == \E coldRaises \in BOOLEAN : ApiGetDashboardStats(coldRaises)

\* the rows of GROUP BY year, month, categoryId with count()
MonthlyGroups(rows) ==
    {[report_year |-> ExtractYear(f.createdAt),
      report_month |-> ExtractMonth(f.createdAt),
      categoryId |-> f.categoryId,
      count |-> Cardinality({g \in rows :
                    /\ ExtractYear(g.createdAt) = ExtractYear(f.createdAt)
                    /\ ExtractMonth(g.createdAt) = ExtractMonth(f.createdAt)
                    /\ g.categoryId = f.categoryId})] : f \in rows}

\* the orders ORDER BY report_year, report_month may return the groups in:
\* groups of one month come in any order
MonthlyCategoryBreakdown(rows) ==
    LET groups == MonthlyGroups(rows)
    IN  {o \in [1..Cardinality(groups) -> groups] :
            /\ \A i, j \in DOMAIN o : i # j => o[i] # o[j]
            /\ \A i, j \in DOMAIN o :
                  i < j => \/ o[i].report_year < o[j].report_year
                           \/ /\ o[i].report_year = o[j].report_year
                              /\ o[i].report_month <= o[j].report_month}

\* AnalyticsService.get_cold_monthly_category_breakdown: the query, with
\* no try around it
GetColdMonthlyCategoryBreakdown(coldRaises) ==
    /\ IF coldRaises
       THEN last' = [op |-> "cold_monthly", coldRaises |-> coldRaises,
                     outcome |-> "error"]
       ELSE \E o \in MonthlyCategoryBreakdown(facts.cold) :
               last' = [op |-> "cold_monthly", coldRaises |-> coldRaises,
                        outcome |-> "ok", result |-> o]
    /\ UNCHANGED <<reportVars, analyticsVars, inflight>>

ColdMonthly ==
    \E coldRaises \in BOOLEAN : GetColdMonthlyCategoryBreakdown(coldRaises)

\* the route GET /dashboard/cold/monthly-category-breakdown: any exception
\* of the service becomes HTTPException 500
ApiGetColdMonthlyBreakdown(coldRaises) ==
    /\ IF coldRaises
       THEN last' = [op |-> "api_cold_monthly", coldRaises |-> coldRaises,
                     status |-> 500]
       ELSE \E o \in MonthlyCategoryBreakdown(facts.cold) :
               last' = [op |-> "api_cold_monthly", coldRaises |-> coldRaises,
                        status |-> 200,
                        body |-> [i \in DOMAIN o |->
                                    [year |-> o[i].report_year,
                                     month |-> o[i].report_month,
                                     category |-> o[i].categoryId,
                                     count |-> o[i].count]]]
    /\ UNCHANGED <<reportVars, analyticsVars, inflight>>

ApiColdMonthly ==
    \E coldRaises \in BOOLEAN : ApiGetColdMonthlyBreakdown(coldRaises)

\* AnalyticsService.get_hot_monthly_category_breakdown
GetHotMonthlyCategoryBreakdown ==
    /\ \E o \in MonthlyCategoryBreakdown(facts.hot) :
          last' = [op |-> "hot_monthly", outcome |-> "ok", result |-> o]
    /\ UNCHANGED <<reportVars, analyticsVars, inflight>>

HotMonthly == GetHotMonthlyCategoryBreakdown

(* ------------------------------ users ---------------------------------- *)

\* app/schemas/user.py UserRole
UserRole == {"citizen", "officer", "admin"}

UserIds == {"U-1", "U-2"}

\* the clock and User.createdAt count half days: a day has two ticks
TicksPerDay == 2

\* account ages in ticks, on both sides of 30, 90 and 365 whole days
AccountAges == {0, 61, 62, 181, 182, 731, 732}

\* the columns of a User row the demographic query reads, createdAt lying
\* an account age before the time 0 of the query
UserColumns ==
    [role : UserRole, isAnonymous : BOOLEAN,
     createdAt : {0 - a : a \in AccountAges}]

\* the User tables: any rows, userId being the primary key
UserTables ==
    UNION {{{[userId |-> id, role |-> f[id].role,
              isAnonymous |-> f[id].isAnonymous,
              createdAt |-> f[id].createdAt] : id \in S} :
                f \in [S -> UserColumns]} : S \in SUBSET UserIds}

InitUsers ==
    /\ InitReports
    /\ facts = NoFacts
    /\ users \in UserTables

\* extract('day', func.now() - User.createdAt): the whole days of the
\* difference
ExtractDay(difference) == difference \div TicksPerDay

\* as AccountAgeSegment, with the upper bounds excluded
AccountAgeSegmentExclusive(user) ==
    LET d == ExtractDay(now - user.createdAt)
    IN  IF d < 30 THEN "New (< 30 days)"
        ELSE IF d < 90 THEN "Active (1-3 months)"
        ELSE IF d < 365 THEN "Established (3-12 months)"
        ELSE "Long-term (> 1 year)"

\* the case(...) labelled account_age_segment
AccountAgeSegment(user) ==
    LET d == ExtractDay(now - user.createdAt)
    IN  IF d <= 30 THEN "New (< 30 days)"
        ELSE IF d <= 90 THEN "Active (1-3 months)"
        ELSE IF d <= 365 THEN "Established (3-12 months)"
        ELSE "Long-term (> 1 year)"

\* the rows of GROUP BY role, isAnonymous, account_age_segment with
\* count(User.userId)
DemographicGroups ==
    {[role |-> u.role, isAnonymous |-> u.isAnonymous,
      account_age_segment |-> AccountAgeSegment(u),
      user_count |-> Cardinality({v \in users :
                        /\ v.role = u.role
                        /\ v.isAnonymous = u.isAnonymous
                        /\ AccountAgeSegment(v) = AccountAgeSegment(u)})] :
        u \in users}

\* the place of a group in ORDER BY role, isAnonymous, account_age_segment:
\* strings in alphabetical order, false before true
RoleOrder(role) ==
    IF role = "admin" THEN 1 ELSE IF role = "citizen" THEN 2 ELSE 3

SegmentOrder(segment) ==
    IF segment = "Active (1-3 months)" THEN 1
    ELSE IF segment = "Established (3-12 months)" THEN 2
    ELSE IF segment = "Long-term (> 1 year)" THEN 3
    ELSE 4

GroupOrder(g) ==
    (RoleOrder(g.role) * 2 + (IF g.isAnonymous THEN 1 ELSE 0)) * 4
        + SegmentOrder(g.account_age_segment)

\* AnalyticsService.get_user_demographic_breakdown: the groups in order
UserDemographicBreakdown ==
    CHOOSE o \in [1..Cardinality(DemographicGroups) -> DemographicGroups] :
        \A i, j \in DOMAIN o : i < j => GroupOrder(o[i]) < GroupOrder(o[j])

GetUserDemographicBreakdown ==
    /\ last' = [op |-> "demographic", result |-> UserDemographicBreakdown]
    /\ UNCHANGED <<reportVars, analyticsVars, inflight>>

Demographic == GetUserDemographicBreakdown

(* ------------------------------ roles ---------------------------------- *)

\* UserRoleUpdate objects
UserRoleUpdate == [role : UserRole]

\* the User tables that differ in who is stored with which role
RoleTables ==
    UNION {{{[userId |-> id, role |-> f[id], isAnonymous |-> FALSE,
              createdAt |-> 0] : id \in S} : f \in [S -> UserRole]} :
                S \in SUBSET UserIds}

InitRoles ==
    /\ InitReports
    /\ facts = NoFacts
    /\ users \in RoleTables

\* Depends(get_current_user): the stored row of the caller the credential
\* names
GetCurrentUser(caller) == {u \in users : u.userId = caller}

\* as IsAdmin, with officers let through
IsAdminOrOfficer(current_user) == current_user.role \in {"admin", "officer"}

\* not (current_user.role != "admin" and current_user.role != UserRole.ADMIN)
IsAdmin(current_user) == current_user.role = "admin"

\* as IsSelfDemotion, for the role citizen only
IsSelfDemotionToCitizen(current_user, user_id, role_data) ==
    user_id = current_user.userId /\ role_data.role = "citizen"

\* user_id == current_user.userId and role_data.role != UserRole.ADMIN
IsSelfDemotion(current_user, user_id, role_data) ==
    user_id = current_user.userId /\ role_data.role # "admin"

\* UserService.update_role: the row of user_id gets the role asked for
UpdateRole(us, user_id, role_data) ==
    {IF u.userId = user_id THEN [u EXCEPT !.role = role_data.role] ELSE u :
        u \in us}

\* the body of assign_role run with a resolved current_user: the status it
\* answers with and the User table it leaves
AssignRoleCall(current_user, user_id, role_data) ==
    IF ~IsAdmin(current_user)
    THEN [status |-> 403, users |-> users]
    ELSE IF IsSelfDemotion(current_user, user_id, role_data)
         THEN [status |-> 400, users |-> users]
         ELSE [status |-> 200, users |-> UpdateRole(users, user_id, role_data)]

\* one request PUT /{user_id}/role from start to end; the user it
\* addresses is a stored one
AssignRole ==
    \E caller \in UserIds, user_id \in {u.userId : u \in users},
       role_data \in UserRoleUpdate :
        \E current_user \in GetCurrentUser(caller) :
            LET call == AssignRoleCall(current_user, user_id, role_data)
            IN  /\ users' = call.users
                /\ last' = [op |-> "assign_role",
                            caller |-> current_user.userId,
                            callerRole |-> current_user.role,
                            user_id |-> user_id,
                            role |-> role_data.role,
                            status |-> call.status]
                /\ UNCHANGED <<reportVars, facts, inflight>>

\* the dependencies of PUT /{user_id}/role are resolved: current_user is
\* the stored user of the caller as of now; the body has not run yet
ResolveAssignRole ==
    \E session \in Sessions, caller \in UserIds,
       user_id \in {u.userId : u \in users}, role_data \in UserRoleUpdate :
        \E current_user \in GetCurrentUser(caller) :
            /\ Idle(session)
            /\ inflight' = inflight \cup
                    {[session |-> session, op |-> "assign_role",
                      current_user |-> current_user,
                      user_id |-> user_id, role_data |-> role_data]}
            /\ UNCHANGED <<reportVars, facts, users, last>>

\* the body of assign_role runs with the current_user resolved before
HandleAssignRole ==
    \E call \in inflight :
        /\ call.op = "assign_role"
        /\ LET done == AssignRoleCall(call.current_user, call.user_id,
                                      call.role_data)
           IN  /\ users' = done.users
               /\ last' = [op |-> "assign_role",
                           caller |-> call.current_user.userId,
                           callerRole |-> call.current_user.role,
                           user_id |-> call.user_id,
                           role |-> call.role_data.role,
                           status |-> done.status]
        /\ inflight' = inflight \ {call}
        /\ UNCHANGED <<reportVars, facts>>

(* ------------------------------ specification -------------------------- *)

\* the calls on the report service and its routes; none touches the
\* analytics database
Next ==
    \/ Create
    \/ Get
    \/ List
    \/ Update
    \/ Delete
    \/ ApiDelete


Spec == Init /\ [][Next]_vars

\* the status updates with every status and with and without notes
NextStatus ==
    \/ CreatePothole
    \/ Get
    \/ UpdateAny

SpecStatus == Init /\ [][NextStatus]_vars

\* the status updates with and without notes, on a store of several reports
NextNotes ==
    \/ Create
    \/ UpdateNotes

SpecNotes == Init /\ [][NextNotes]_vars

\* the listings with offsets, page sizes and filters, on a store whose
\* reports differ in status and category
NextList ==
    \/ CreateBare
    \/ UpdateAssign
    \/ ListAny

SpecList == Init /\ [][NextList]_vars

\* the analytics queries on fact tables that hold any rows
NextAnalytics ==
    \/ Dashboard
    \/ ApiDashboard
    \/ ColdMonthly
    \/ ApiColdMonthly
    \/ HotMonthly

SpecAnalytics == InitAnalytics /\ [][NextAnalytics]_vars

\* the demographic query on User tables that hold any rows
NextUsers == Demographic

SpecUsers == InitUsers /\ [][NextUsers]_vars

\* reports created one after the other, and the first page of the list
NextRecent ==
    \/ CreateRecent
    \/ ListFirstPage

SpecRecent == Init /\ [][NextRecent]_vars

\* status updates that run at the same time on one report
NextUpdates ==
    \/ CreatePothole
    \/ BeginUpdate
    \/ EndUpdate

SpecUpdates == Init /\ [][NextUpdates]_vars

\* status updates and deletes that run at the same time on one report
NextRace ==
    \/ CreatePothole
    \/ BeginUpdate
    \/ EndUpdate
    \/ BeginDelete
    \/ EndDelete

SpecRace == Init /\ [][NextRace]_vars

\* the request bodies that pass or fail validation before create
NextValidate == Submit

SpecValidate == Init /\ [][NextValidate]_vars

\* the role assignments, one request at a time
NextRoles == AssignRole

SpecRoles == InitRoles /\ [][NextRoles]_vars

\* the role assignments of requests that run at the same time
NextRolesRace ==
    \/ ResolveAssignRole
    \/ HandleAssignRole

SpecRolesRace == InitRoles /\ [][NextRolesRace]_vars

(* ------------------------------ properties ----------------------------- *)

\* a report with this identifier is among the rows rs
HasReport(rs, report_id) == \E r \in rs : r.reportId = report_id

\* the attachment rows of as that belong to the report
RowsOf(as, report_id) == {a \in as : a.reportId = report_id}

CreateFailedAtCommit(l) ==
    l.op = "create" /\ l.outcome = "error" /\ l.failed = "commit"

CreateSucceeded(l) == l.op = "create" /\ l.outcome = "ok"

\* C1: when the commit of create fails, the reports and the attachments in
\* the store are exactly those from before the call, whatever the number
\* of attachments in the input.
FailedCommitLeavesNoPartialState ==
    [][CreateFailedAtCommit(last')
        => reports' = reports /\ attachments' = attachments]_vars

\* C1 witness: a create carrying an attachment has failed at its commit.
FailedCommitWithAttachment ==
    /\ CreateFailedAtCommit(last)
    /\ Len(last.input.attachments) >= 1

\* C2: every stored attachment refers to a stored report; a successful
\* delete removes the attachments of the report in the same step.
NoOrphanedAttachments ==
    \A a \in attachments : HasReport(reports, a.reportId)

\* C2 witness: a report that owned attachments has just been deleted.
DeletedReportWithAttachments ==
    /\ last.op = "delete"
    /\ last.outcome = "ok"
    /\ last.result = TRUE
    /\ last.cascaded >= 1

ExpectedCategory(input) ==
    IF input.categoryId = None THEN "other" ELSE input.categoryId

\* C4: the report of a successful create, as returned and as stored, has
\* status Submitted, no aiConfidence, and the input's category or 'other'.
CreatedReportDefaults ==
    CreateSucceeded(last)
        => /\ last.result.status = "Submitted"
           /\ last.result.aiConfidence = None
           /\ last.result.categoryId = ExpectedCategory(last.input)
           /\ \E r \in reports :
                 /\ r.reportId = last.result.reportId
                 /\ r.status = "Submitted"
                 /\ r.aiConfidence = None
                 /\ r.categoryId = ExpectedCategory(last.input)

\* C4 witness: a create without a category has succeeded.
CreatedWithoutCategory ==
    /\ CreateSucceeded(last)
    /\ last.input.categoryId = None
    /\ last.result.categoryId = "other"

\* C5 (as claimed): the identifier create generates differs from the
\* identifier of every stored report, so that a create the database does
\* not fail obtains a fresh identifier.
CreateIdentifierIsFresh ==
    [][last'.op = "create" => ~HasReport(reports, last'.reportId)]_vars

\* C6: the location a successful create returns is the input's; get, list
\* and updateStatus return the stored value under 'location'; no step
\* alters the stored value of a report.
LocationRoundTrip ==
    [][/\ CreateSucceeded(last')
            => /\ last'.result.location = last'.input.location
               /\ \E r \in reports' \ reports :
                     /\ r.reportId = last'.result.reportId
                     /\ r.locationRaw = last'.input.location
       /\ (last'.op = "get" /\ last'.call.outcome = "ok")
            => \E r \in reports :
                  /\ r.reportId = last'.reportId
                  /\ last'.call.result.location = r.locationRaw
       /\ (last'.op = "update" /\ last'.outcome = "ok")
            => \E r \in reports :
                  /\ r.reportId = last'.reportId
                  /\ last'.result.location = r.locationRaw
       /\ last'.op = "list"
            => \A i \in DOMAIN last'.result.reports :
                  \E r \in reports :
                     /\ r.reportId = last'.result.reports[i].reportId
                     /\ last'.result.reports[i].location = r.locationRaw
       /\ \A r \in reports : \A q \in reports' :
             q.reportId = r.reportId => q.locationRaw = r.locationRaw]_vars

\* C6 witness: a get after an update returns the location of the create.
LocationReadAfterUpdate ==
    /\ last.op = "get"
    /\ last.call.outcome = "ok"
    /\ last.call.result.status = "Resolved"
    /\ last.call.result.location = "King Faisal Street, Giza"

\* C7: get returns the stored report, with its identifier, its title and
\* all of its attachments, exactly when the identifier is stored; else it
\* signals not found; it leaves the store as it was.
GetReturnsStoredReport ==
    [][last'.op = "get"
        => /\ reports' = reports
           /\ attachments' = attachments
           /\ IF HasReport(reports, last'.reportId)
              THEN /\ last'.call.outcome = "ok"
                   /\ last'.call.result.reportId = last'.reportId
                   /\ \E r \in reports :
                         /\ r.reportId = last'.reportId
                         /\ r.title = last'.call.result.title
                   /\ last'.call.result.attachments
                         = {AttachmentResponse(a) :
                               a \in RowsOf(attachments, last'.reportId)}
              ELSE last'.call.outcome = "not_found"]_vars

\* C7 witness: get has returned a report that owns an attachment.
GotReportWithAttachment ==
    /\ last.op = "get"
    /\ last.call.outcome = "ok"
    /\ last.call.result.attachments # {}

\* C8 (as claimed): when DELETE answers 204, the report is not in the
\* store afterwards.
ApiDeleteRemovesReport ==
    (last.op = "api_delete" /\ last.status = 204)
        => ~HasReport(reports, last.reportId)

\* C9: delete of an identifier that is not stored returns false, raises
\* nothing and leaves the store as it was; after a successful delete the
\* identifier is not stored, so a second delete returns false.
DeleteOfAbsentReturnsFalse ==
    [][last'.op = "delete"
        => /\ ~HasReport(reports, last'.reportId)
                => /\ last'.outcome = "ok"
                   /\ last'.result = FALSE
                   /\ reports' = reports
                   /\ attachments' = attachments
           /\ (last'.outcome = "ok" /\ last'.result = TRUE)
                => ~HasReport(reports', last'.reportId)]_vars

\* C9 witness: delete has returned false while other reports are stored.
DeletedAbsentReport ==
    /\ last.op = "delete"
    /\ last.outcome = "ok"
    /\ last.result = FALSE
    /\ reports # {}

UpdateReachesAnyStatus ==
    [][/\ (/\ last'.op = "update"
           /\ HasReport(reports, last'.reportId)
           /\ last'.fault = "none")
          => /\ last'.outcome = "ok"
             /\ last'.result.reportId = last'.reportId
             /\ last'.result.status = last'.input.status
             /\ HasReport(reports', last'.reportId)
             /\ \A r \in reports' :
                   r.reportId = last'.reportId
                       => r.status = last'.input.status
       /\ (/\ last.op = "update"
           /\ last.outcome = "ok"
           /\ last'.op = "get"
           /\ last'.reportId = last.reportId)
          => /\ last'.call.outcome = "ok"
             /\ last'.call.result.status = last.input.status]_vars

\* C11 witness: a resolved report has been moved back to Submitted.
ResolvedMovedBackToSubmitted ==
    /\ last.op = "update"
    /\ last.outcome = "ok"
    /\ last.previous = "Resolved"
    /\ last.input.status = "Submitted"
    /\ last.result.status = "Submitted"

\* C12 (as claimed): after every successful updateStatus the updatedAt of
\* the report is strictly greater than its updatedAt before the call.
UpdatedAtStrictlyIncreases ==
    [][(last'.op = "update" /\ last'.outcome = "ok")
        => \A r \in reports, q \in reports' :
              (r.reportId = last'.reportId /\ q.reportId = last'.reportId)
                  => q.updatedAt > r.updatedAt]_vars

\* C13: updateStatus changes nothing but the status and the updatedAt of
\* the report it addresses - the other columns of that report, its
\* attachments, every other report and every other attachment are as
\* before - and the notes, given or not, make no call fail and reach no
\* column.
UpdateChangesOnlyStatusAndUpdatedAt ==
    [][last'.op = "update"
        => /\ attachments' = attachments
           /\ \A r \in reports : r.reportId # last'.reportId => r \in reports'
           /\ \A q \in reports' : q.reportId # last'.reportId => q \in reports
           /\ HasReport(reports', last'.reportId)
                  <=> HasReport(reports, last'.reportId)
           /\ \A r \in reports, q \in reports' :
                 (r.reportId = last'.reportId /\ q.reportId = last'.reportId)
                     => /\ [q EXCEPT !.status = r.status,
                                     !.updatedAt = r.updatedAt] = r
                        /\ q.status \in {r.status, last'.input.status}
           /\ (HasReport(reports, last'.reportId) /\ last'.fault = "none")
                  => last'.outcome = "ok"]_vars

\* C13 witness: a status update that carries notes has succeeded on one of
\* two stored reports.
UpdatedWithNotesAmongTwoReports ==
    /\ last.op = "update"
    /\ last.outcome = "ok"
    /\ last.input.notes # None
    /\ Cardinality(reports) = 2

\* the report r passes the filters of a listing; a filter left out passes
\* every report
MatchesFilters(r, status, category) ==
    /\ (status # None => r.status = status)
    /\ (category # None => r.categoryId = category)

\* the stored reports that pass the filters of the listing l
MatchingReports(l) ==
    {r \in reports : MatchesFilters(r, l.status, l.category)}

\* C14 (as claimed): the total of a listing is the number of stored reports
\* that pass all the filters given, both together included, whatever skip
\* and limit are.
ListTotalCountsMatching ==
    last.op = "list"
        => last.result.total = Cardinality(MatchingReports(last))

\* C15: a listing with limit >= 1 returns only reports that pass the
\* filters, newest first, and its page is the slice [skip, skip + limit) of
\* the matching reports in one newest-first order: it holds
\* min(limit, max(0, matching - skip)) reports.
ListReturnsMatchingSlice ==
    (last.op = "list" /\ last.limit >= 1)
        => LET page == last.result.reports
               M == MatchingReports(last)
               n == Cardinality(M)
               rest == IF n > last.skip THEN n - last.skip ELSE 0
           IN  /\ \A i \in DOMAIN page :
                     \E r \in M : /\ r.reportId = page[i].reportId
                                  /\ r.status = page[i].status
                                  /\ r.categoryId = page[i].categoryId
                                  /\ r.createdAt = page[i].createdAt
               /\ \A i, j \in DOMAIN page :
                     i < j => page[i].createdAt >= page[j].createdAt
               /\ Len(page) = IF last.limit < rest THEN last.limit ELSE rest
               /\ \E o \in [1..n -> M] :
                     /\ \A i, j \in 1..n : i # j => o[i] # o[j]
                     /\ \A i, j \in 1..n :
                           i < j => o[i].createdAt >= o[j].createdAt
                     /\ \A i \in DOMAIN page :
                           page[i].reportId = o[last.skip + i].reportId

\* C15 witness: a listing filtered by status has returned a report while
\* the store holds a report the filter leaves out.
ListedWithReportFilteredOut ==
    /\ last.op = "list"
    /\ last.limit >= 1
    /\ last.status # None
    /\ Len(last.result.reports) >= 1
    /\ \E r \in reports : r.status # last.status

\* C16: a listing with limit >= 1 has pageSize = limit,
\* page = floor(skip / limit) + 1 and totalPages = ceil(total / limit),
\* which is 0 for total = 0; with limit = 0 it has page = 1 and
\* totalPages = 1.
ListPageNumbers ==
    last.op = "list"
        => LET res == last.result
           IN  /\ res.pageSize = last.limit
               /\ last.limit >= 1
                     => /\ res.page >= 1
                        /\ (res.page - 1) * last.limit <= last.skip
                        /\ last.skip < res.page * last.limit
                        /\ res.totalPages >= 0
                        /\ res.totalPages * last.limit >= res.total
                        /\ (res.totalPages - 1) * last.limit < res.total
                        /\ res.total = 0 => res.totalPages = 0
               /\ last.limit = 0 => (res.page = 1 /\ res.totalPages = 1)

\* C16 witness: a listing of one report with limit 2 has one page, where
\* the quotient rounds up.
ListedOneReportInPagesOfTwo ==
    /\ last.op = "list"
    /\ last.limit = 2
    /\ last.skip = 1
    /\ last.result.total = 1
    /\ last.result.totalPages = 1
    /\ last.result.page = 1

\* C17 (as claimed): dashboardStats returns a bundle whose totalReports is
\* the hot count plus the cold count, the cold count being 0 when the cold
\* query raises.
DashboardReturnsTotals ==
    last.op = "dashboard"
        => /\ last.result.py = "DashboardStatsResponse"
           /\ last.result.coldReports
                 = (IF last.coldRaises THEN 0 ELSE Cardinality(facts.cold))
           /\ last.result.totalReports
                 = Cardinality(facts.hot) + last.result.coldReports

\* C18 (as claimed): the bundle of one dashboardStats call holds, besides
\* the counts, the monthly category breakdown, the demographic breakdown
\* and the user list.
DashboardEmbedsBreakdowns ==
    last.op = "dashboard"
        => /\ last.result.py = "DashboardStatsResponse"
           /\ {"statusBreakdown", "categoryBreakdown", "anonymousReports",
               "registeredReports", "monthlyCategoryCounts",
               "demographiCounts", "UsersList"} \subseteq DOMAIN last.result
           /\ last.result.registeredReports
                 = Cardinality(facts.hot) - last.result.anonymousReports

\* C19 (as claimed): when the cold store raises, the cold monthly breakdown
\* is the empty list and dashboardStats has coldCount = 0; neither ends in
\* an error.
ColdFailureNeverPropagates ==
    /\ (last.op = "cold_monthly" /\ last.coldRaises)
          => (last.outcome = "ok" /\ last.result = <<>>)
    /\ (last.op = "api_cold_monthly" /\ last.coldRaises)
          => (last.status = 200 /\ last.body = <<>>)
    /\ (last.op = "dashboard" /\ last.coldRaises)
          => (/\ last.result.py = "DashboardStatsResponse"
              /\ last.result.coldReports = 0)

\* the account age of the user in whole days at the time of the query
AgeInWholeDays(u) ==
    CHOOSE d \in 0..(now - u.createdAt) :
        /\ d * TicksPerDay <= now - u.createdAt
        /\ now - u.createdAt < (d + 1) * TicksPerDay

\* the age segment the claim gives an account of d whole days
SegmentOfAge(d) ==
    CHOOSE g \in {"New (< 30 days)", "Active (1-3 months)",
                  "Established (3-12 months)", "Long-term (> 1 year)"} :
        /\ d <= 30 => g = "New (< 30 days)"
        /\ (30 < d /\ d <= 90) => g = "Active (1-3 months)"
        /\ (90 < d /\ d <= 365) => g = "Established (3-12 months)"
        /\ d > 365 => g = "Long-term (> 1 year)"

\* the users of the row's role, anonymity and age segment
UsersOfGroup(row) ==
    {u \in users : /\ u.role = row.role
                   /\ u.isAnonymous = row.isAnonymous
                   /\ SegmentOfAge(AgeInWholeDays(u)) = row.account_age_segment}

RECURSIVE SumOfUserCounts(_)
SumOfUserCounts(rows) ==
    IF rows = <<>> THEN 0
    ELSE Head(rows).user_count + SumOfUserCounts(Tail(rows))

RoleOf(us, user_id) == {u.role : u \in {v \in us : v.userId = user_id}}

\* C21: assignRole called by a user whose role is not admin ends with
\* Forbidden (403), whoever is addressed, the caller included, and whatever
\* role is asked for; no role in the table changes.
NonAdminAssignRoleIsForbidden ==
    [][(last'.op = "assign_role" /\ RoleOf(users, last'.caller) # {"admin"})
        => (last'.status = 403 /\ users' = users)]_vars

\* C21 witness: an officer has asked to become admin and was refused.
OfficerRefusedOwnPromotion ==
    /\ last.op = "assign_role"
    /\ last.callerRole = "officer"
    /\ last.user_id = last.caller
    /\ last.role = "admin"
    /\ last.status = 403

\* C22: assignRole called by an admin on their own userId with a role other
\* than admin ends with InvalidOperation (400) and changes no role; after
\* any assignRole an admin makes on themselves they are still admin.
AdminCannotDemoteSelf ==
    [][(/\ last'.op = "assign_role"
        /\ RoleOf(users, last'.caller) = {"admin"}
        /\ last'.user_id = last'.caller)
        => /\ last'.role # "admin" => (last'.status = 400 /\ users' = users)
           /\ RoleOf(users', last'.caller) = {"admin"}]_vars

\* C22 witness: an admin has asked to become officer and was refused.
AdminRefusedOwnDemotion ==
    /\ last.op = "assign_role"
    /\ last.callerRole = "admin"
    /\ last.user_id = last.caller
    /\ last.role = "officer"
    /\ last.status = 400

\* the size lies within the bounds the claim gives
SizeAccepted(n) == 1 <= n /\ n <= MaxFileSizeBytes

\* the body is well-formed but for its attachments
ValidButForAttachments(p) ==
    /\ Len(p.title) >= MinTitleLength
    /\ Len(p.title) <= MaxTitleLength
    /\ Len(p.descriptionText) >= MinDescriptionLength
    /\ "location" \in DOMAIN p

\* the call has left the tables and the uuid source as they were
NothingPersisted ==
    /\ reports' = reports
    /\ attachments' = attachments
    /\ uuidCount' = uuidCount

\* C23: create is reached only with attachments of 1 to 52,428,800 bytes;
\* a body that is well-formed but for its attachments is rejected exactly
\* when one of its sizes is outside these bounds (0 or 52,428,801), and a
\* rejected body persists nothing.
AttachmentSizeBounds ==
    [][/\ last'.op = "create"
          => \A i \in DOMAIN last'.input.attachments :
                SizeAccepted(last'.input.attachments[i].fileSizeBytes)
       /\ last'.op = "validate"
          => /\ last'.outcome = "validation_error"
             /\ NothingPersisted
             /\ ValidButForAttachments(last'.input)
                   => \E i \in DOMAIN last'.input.attachments :
                         ~SizeAccepted(last'.input.attachments[i].fileSizeBytes)
      ]_vars

\* C23 witness: a body whose only fault is an attachment of 52,428,801
\* bytes has been rejected.
RejectedAttachmentOverCeiling ==
    /\ last.op = "validate"
    /\ last.outcome = "validation_error"
    /\ ValidButForAttachments(last.input)
    /\ Len(last.input.attachments) = 1
    /\ last.input.attachments[1].fileSizeBytes = MaxFileSizeBytes + 1

\* C24: create is reached only with a title of 3 to 500 characters, a
\* descriptionText of at least 10 and a location; every other body is
\* rejected with ValidationError, and a rejected body changes no table and
\* consumes no identifier.
InvalidReportRejectedBeforePersistence ==
    [][/\ last'.op = "create"
          => /\ Len(last'.input.title) >= MinTitleLength
             /\ Len(last'.input.title) <= MaxTitleLength
             /\ Len(last'.input.descriptionText) >= MinDescriptionLength
             /\ "location" \in DOMAIN last'.input
       /\ last'.op = "validate"
          => /\ last'.outcome = "validation_error"
             /\ NothingPersisted
      ]_vars

\* C24 witness: a body without location, its title and description long
\* enough, has been rejected.
RejectedMissingLocation ==
    /\ last.op = "validate"
    /\ last.outcome = "validation_error"
    /\ "location" \notin DOMAIN last.input
    /\ Len(last.input.title) = MinTitleLength
    /\ Len(last.input.descriptionText) >= MinDescriptionLength

\* C25 (as claimed): of two status updates that run at the same time on a
\* stored report both succeed, and once an update has committed the stored
\* status is the one it asked for: the update that commits last decides.
LastWriterWins ==
    last.op = "update"
        => /\ last.outcome # "error"
           /\ last.outcome = "ok"
                 => \A r \in reports :
                       r.reportId = last.reportId
                           => r.status = last.input.status

\* C27 (as claimed): a status update that runs at the same time as a delete
\* of the same report ends with the updated report or with not found,
\* never with a persistence error, and once delete has returned true the
\* report is not stored.
UpdateRacingDeleteNeverFails ==
    /\ last.op = "update" => last.outcome \in {"ok", "not_found"}
    /\ (last.op = "delete" /\ last.outcome = "ok" /\ last.result = TRUE)
          => ~HasReport(reports, last.reportId)

\* C28 (as claimed): whenever create ends with an error, a failure of the
\* refresh after a successful commit included, the call has persisted
\* nothing: its report and its attachments are not added to the store.
CreateErrorPersistsNothing ==
    [][(last'.op = "create" /\ last'.outcome = "error")
          => /\ reports' = reports
             /\ attachments' = attachments]_vars

\* some stored user has the role admin
HasAdmin(us) == \E u \in us : u.role = "admin"

\* C29 (as claimed): when some user is admin, some user is admin after
\* every role assignment, also when two admins demote each other in
\* requests whose current_user was resolved before the other's write.
AdminAlwaysRemains ==
    [][HasAdmin(users) => HasAdmin(users')]_vars

\* C26 (as claimed): the list with skip 0, limit 10 and no filters that
\* follows a successful create contains the report just created, whatever
\* reports were stored before.
ListAfterCreateContainsNewReport ==
    [][(CreateSucceeded(last) /\ last'.op = "list")
          => last.reportId \in last'.reportIds]_vars

====
